---- MODULE Spec2Model ----
(***************************************************************************)
(* Compliance scoring, reward-token ledger and leaderboard of the          *)
(* drivewise / expensetrackerapp Django applications, as a state machine.  *)
(*                                                                         *)
(* The database tables are the state.  Every ORM call is one statement in  *)
(* autocommit mode (no view opens a transaction, none locks a row), so a   *)
(* request handler is a sequence of atomic steps and two handlers may      *)
(* interleave between any two of their statements.                         *)
(***************************************************************************)
EXTENDS Integers, Sequences, FiniteSets, Bags, TLC

(***************************************************************************)
(* Bounds and input domains                                                *)
(***************************************************************************)
Vehicles == {"v1", "v2"}          \* vehicle ids the requests name
Procs == {"p1", "p2"}             \* request handlers that may run at once

\* ComplianceRecord rows the table may hold: process_sensor_data is accepted
\* while there are fewer.
MaxRecords == 3

\* An optional integer (IntegerField(null=True)): <<>> is None, <<n>> is n.
None == <<>>

SpeedLimits == {None, <<0>>, <<40>>}
ActualSpeeds == {None, <<0>>, <<40>>, <<41>>, <<60>>, <<61>>, <<65>>}
SuppliedScores == {100, 250}      \* compliance_score values a caller passes

\* Python truthiness of an optional integer: None and 0 are false.
Truthy(x) == x # None /\ x[1] # 0

Max(a, b) == IF a >= b THEN a ELSE b

(***************************************************************************)
(* ComplianceRecord (drivewise/models.py 124-195; the expensetrackerapp    *)
(* copy, models.py 53-127, has the same fields and the same two methods)   *)
(***************************************************************************)
ViolationTypes ==
    {"speed_violation", "horn_violation", "seatbelt_violation",
     "stop_violation", "no_violation"}

\* The violation types Vehicle.total_violations counts.
CountedViolations == {"speed_violation", "horn_violation", "seatbelt_violation"}

\* A model instance as the caller builds it: every keyword it may pass.
RecordInstances ==
    [speed_limit : SpeedLimits, actual_speed : ActualSpeeds,
     no_horn_zone : BOOLEAN, horn_applied : BOOLEAN,
     seatbelt_required : BOOLEAN, seatbelt_worn : BOOLEAN,
     violation_type : {"no_violation"}, compliance_score : SuppliedScores]

\* Faulty variant: the seatbelt penalty is added instead of subtracted.
calculate_compliance_score_sign(r) ==
    LET afterSpeed ==
            IF Truthy(r.speed_limit) /\ Truthy(r.actual_speed)
               /\ r.actual_speed[1] > r.speed_limit[1]
            THEN IF r.actual_speed[1] > r.speed_limit[1] + 20 THEN 70 ELSE 80
            ELSE 100
        afterHorn ==
            IF r.no_horn_zone /\ r.horn_applied THEN afterSpeed - 15 ELSE afterSpeed
        afterBelt ==
            IF r.seatbelt_required /\ ~r.seatbelt_worn THEN afterHorn + 25 ELSE afterHorn
    IN  Max(0, afterBelt)

\* Faulty variant: the excessive-speed test compares against the limit, not limit + 20.
calculate_compliance_score_excess(r) ==
    LET afterSpeed ==
            IF Truthy(r.speed_limit) /\ Truthy(r.actual_speed)
               /\ r.actual_speed[1] > r.speed_limit[1]
            THEN IF r.actual_speed[1] > r.speed_limit[1] THEN 70 ELSE 80
            ELSE 100
        afterHorn ==
            IF r.no_horn_zone /\ r.horn_applied THEN afterSpeed - 15 ELSE afterSpeed
        afterBelt ==
            IF r.seatbelt_required /\ ~r.seatbelt_worn THEN afterHorn - 25 ELSE afterHorn
    IN  Max(0, afterBelt)

\* Faulty variant: the excessive-speed test is >= limit + 20.
calculate_compliance_score_inclusive(r) ==
    LET afterSpeed ==
            IF Truthy(r.speed_limit) /\ Truthy(r.actual_speed)
               /\ r.actual_speed[1] > r.speed_limit[1]
            THEN IF r.actual_speed[1] >= r.speed_limit[1] + 20 THEN 70 ELSE 80
            ELSE 100
        afterHorn ==
            IF r.no_horn_zone /\ r.horn_applied THEN afterSpeed - 15 ELSE afterSpeed
        afterBelt ==
            IF r.seatbelt_required /\ ~r.seatbelt_worn THEN afterHorn - 25 ELSE afterHorn
    IN  Max(0, afterBelt)

\* ComplianceRecord.calculate_compliance_score: start at 100, subtract the
\* penalties in the order of the code, floor at 0.
calculate_compliance_score(r) ==
    LET score0 == 100
        afterSpeed ==
            IF Truthy(r.speed_limit) /\ Truthy(r.actual_speed)
            THEN IF r.actual_speed[1] > r.speed_limit[1]
                 THEN IF r.actual_speed[1] > r.speed_limit[1] + 20
                      THEN score0 - 20 - 10
                      ELSE score0 - 20
                 ELSE score0
            ELSE score0
        afterHorn ==
            IF r.no_horn_zone /\ r.horn_applied THEN afterSpeed - 15 ELSE afterSpeed
        afterBelt ==
            IF r.seatbelt_required /\ ~r.seatbelt_worn THEN afterHorn - 25 ELSE afterHorn
    IN  Max(0, afterBelt)

\* Faulty variant: save() also classifies the record by its first penalty.
ComplianceRecord_save_classify(r) ==
    [r EXCEPT !.compliance_score = calculate_compliance_score(r),
              !.violation_type =
                  IF r.no_horn_zone /\ r.horn_applied THEN "horn_violation"
                  ELSE IF r.seatbelt_required /\ ~r.seatbelt_worn THEN "seatbelt_violation"
                  ELSE r.violation_type]

\* Faulty variant: save() persists the instance as the caller built it.
ComplianceRecord_save_keep(r) == r

\* ComplianceRecord.save: the score is recomputed from the instance's own
\* fields and overwrites whatever the instance carried; the row is then written.
ComplianceRecord_save(r) ==
    [r EXCEPT !.compliance_score = calculate_compliance_score(r)]

(***************************************************************************)
(* Database state and the requests in flight                               *)
(***************************************************************************)
VARIABLES
    vehicle,      \* Vehicle table: vehicle id -> vehicle_type, or "absent"
    records,      \* ComplianceRecord table: vehicle id -> the bag of its rows
    reward,       \* RewardToken table: vehicle id -> its rows, lowest pk first
    leaderboard,  \* Leaderboard table: vehicle id -> its rows, lowest pk first
    pc,           \* per handler: the statement it executes next
    local,        \* per handler: the local variables of the view function
    resp,         \* per handler: the Response it returns (status "none" before)
    instance      \* a ComplianceRecord built by a direct ORM caller, not yet saved

db == <<vehicle, records, reward, leaderboard>>
vars == <<vehicle, records, reward, leaderboard, pc, local, resp, instance>>

\* Leaderboard qualification threshold (trip_count__gte=3, total_trips >= 3).
MinEntries == 3

\* A RewardToken instance/row: the two counters save() writes together.
NoRow == [tokens_earned |-> 0, tokens_spent |-> 0]

NoLocal ==
    [vehicle |-> "-", amount |-> 0, violation_type |-> "-", compliance_score |-> 0,
     tokens_earned |-> 0, reward_token |-> NoRow]

NoResp == [op |-> "-", status |-> "none"]

NoInstance == [violation_type |-> "-"]

\* RewardToken.tokens_available
tokens_available(row) == row.tokens_earned - row.tokens_spent

(***************************************************************************)
(* Vehicle aggregates (drivewise/models.py 42-80); percentages are kept    *)
(* in hundredths: 100.0 is 10000, 66.67 is 6667.                           *)
(***************************************************************************)
\* round(num / den, 2) in hundredths, ties to the even neighbour (Python 3).
Round2(num, den) ==
    LET n == num * 100
        f == n \div den
        r == n % den
    IN  IF 2 * r < den THEN f
        ELSE IF 2 * r > den THEN f + 1
        ELSE IF f % 2 = 0 THEN f ELSE f + 1

\* Faulty variant: every record that is not no_violation is counted.
total_violations_not_clean(recs) ==
    LET counted == {r \in BagToSet(recs) : r.violation_type # "no_violation"}
    IN  BagCardinality([r \in counted |-> CopiesIn(r, recs)])

\* ComplianceRecord.objects.filter(vehicle=self, violation_type__in=[...]).count()
total_violations(recs) ==
    LET counted == {r \in BagToSet(recs) : r.violation_type \in CountedViolations}
    IN  BagCardinality([r \in counted |-> CopiesIn(r, recs)])

\* ComplianceRecord.objects.filter(vehicle=self).count()
total_trips(recs) == BagCardinality(recs)

\* sum(record.compliance_score for record in records), over the rows in S.
RECURSIVE ScoreSum(_, _)
ScoreSum(recs, S) ==
    IF S = {} THEN 0
    ELSE LET r == CHOOSE x \in S : TRUE
         IN  CopiesIn(r, recs) * r.compliance_score + ScoreSum(recs, S \ {r})

\* Faulty variant: the share of violating trips instead of compliant ones.
compliance_rate_of_violations(recs) ==
    IF total_trips(recs) = 0 THEN 10000
    ELSE Round2(total_violations(recs) * 100, total_trips(recs))

\* Vehicle.compliance_rate
compliance_rate(recs) ==
    IF total_trips(recs) = 0 THEN 10000
    ELSE Round2((total_trips(recs) - total_violations(recs)) * 100, total_trips(recs))

average_compliance_score(recs) ==
    IF total_trips(recs) = 0 THEN 10000
    ELSE Round2(ScoreSum(recs, BagToSet(recs)), total_trips(recs))

qualifies_for_leaderboard(recs) == total_trips(recs) >= MinEntries

(***************************************************************************)
(* Leaderboard (drivewise/models.py 197-254)                               *)
(***************************************************************************)
\* A row as Leaderboard.objects.create(vehicle=v) inserts it: field defaults.
NewLeaderboardRow ==
    [rank |-> 0, total_violations |-> 0, total_trips |-> 0,
     compliance_rate |-> 10000, average_compliance_score |-> 10000,
     total_tokens_earned |-> 0]

\* Leaderboard.update_stats on vehicle v's entry: the cached fields are
\* overwritten from the vehicle's records and its first RewardToken row.
update_stats(row, recs, rows) ==
    [row EXCEPT
        !.total_violations = total_violations(recs),
        !.total_trips = total_trips(recs),
        !.compliance_rate = compliance_rate(recs),
        !.average_compliance_score = average_compliance_score(recs),
        !.total_tokens_earned = IF rows = <<>> THEN 0 ELSE rows[1].tokens_earned]

\* First loop of update_all_rankings: every vehicle with at least 3 records
\* gets an entry (get_or_create) and the entry's stats are refreshed.
RefreshEntries(lb, recs, rew) ==
    [v \in Vehicles |->
        IF total_trips(recs[v]) >= MinEntries
        THEN IF lb[v] = <<>>
             THEN <<update_stats(NewLeaderboardRow, recs[v], rew[v])>>
             ELSE [lb[v] EXCEPT ![1] = update_stats(lb[v][1], recs[v], rew[v])]
        ELSE lb[v]]

\* Leaderboard.objects.all(): every row, named by its vehicle and position.
Entries(lb) == UNION {{<<v, i>> : i \in DOMAIN lb[v]} : v \in Vehicles}

\* Faulty variant: compliance_rate is the first sort key.
SortsBefore_rate_first(a, b) ==
    \/ a.compliance_rate > b.compliance_rate
    \/ /\ a.compliance_rate = b.compliance_rate
       /\ a.total_trips > b.total_trips
    \/ /\ a.compliance_rate = b.compliance_rate
       /\ a.total_trips = b.total_trips
       /\ a.total_violations < b.total_violations

\* order_by('-total_trips', 'total_violations', '-compliance_rate'): a sorts
\* strictly before b.  Rows equal on the three keys come in whatever order
\* the database returns them.
SortsBefore(a, b) ==
    \/ a.total_trips > b.total_trips
    \/ /\ a.total_trips = b.total_trips
       /\ a.total_violations < b.total_violations
    \/ /\ a.total_trips = b.total_trips
       /\ a.total_violations = b.total_violations
       /\ a.compliance_rate > b.compliance_rate

\* The enumerations order_by may produce: positions 1..N consistent with the key.
Orderings(lb) ==
    LET E == Entries(lb)
        N == Cardinality(E)
    IN  {f \in [E -> 1..N] :
            /\ \A a, b \in E : a # b => f[a] # f[b]
            /\ \A a, b \in E :
                 SortsBefore(lb[a[1]][a[2]], lb[b[1]][b[2]]) => f[a] < f[b]}

\* Faulty variant: enumerate starts at 0.
AssignRanks_from_zero(lb, f) ==
    [v \in Vehicles |->
        [i \in DOMAIN lb[v] |-> [lb[v][i] EXCEPT !.rank = f[<<v, i>>] - 1]]]

\* Second loop of update_all_rankings: entry.rank = position; entry.save().
AssignRanks(lb, f) ==
    [v \in Vehicles |->
        [i \in DOMAIN lb[v] |-> [lb[v][i] EXCEPT !.rank = f[<<v, i>>]]]]

\* Leaderboard.update_all_rankings run without interruption: the tables it
\* may leave behind.
update_all_rankings(lb, recs, rew) ==
    LET refreshed == RefreshEntries(lb, recs, rew)
    IN  {AssignRanks(refreshed, f) : f \in Orderings(refreshed)}

(***************************************************************************)
(* Inputs of the API                                                       *)
(***************************************************************************)
\* Sensor events (sign_type, drive_value) a client posts to drivewise.
SensorEvents ==
    {[sign_type |-> "seatbelt", drive_value |-> 1],
     [sign_type |-> "no_horn", drive_value |-> 1]}

\* Amounts a client asks to spend (SpendRequest.amount, an integer >= 0).
Amounts == {10}

VehicleTypes == {"two_wheeler", "four_wheeler", "commercial"}

\* Faulty variant: the limit is the posted sign's own value (40), as in
\* expensetrackerapp, and only actual_speed comes from drive_value.
SensorRecord_sign_limit(ev, vehicle_type) ==
    [speed_limit |-> IF ev.sign_type = "speed_limit" THEN <<40>> ELSE None,
     actual_speed |-> IF ev.sign_type = "speed_limit" THEN <<ev.drive_value>> ELSE None,
     no_horn_zone |-> ev.sign_type = "no_horn",
     horn_applied |-> IF ev.sign_type = "no_horn" THEN ev.drive_value = 1 ELSE FALSE,
     seatbelt_required |-> vehicle_type = "four_wheeler",
     seatbelt_worn |-> IF ev.sign_type = "seatbelt" THEN ev.drive_value = 1 ELSE FALSE,
     violation_type |-> "no_violation",
     compliance_score |-> 100]

\* The instance process_sensor_data builds for an event (views.py 49-58):
\* both speed fields come from drive_value, violation_type and
\* compliance_score are left at their field defaults.
SensorRecord(ev, vehicle_type) ==
    [speed_limit |-> IF ev.sign_type = "speed_limit" THEN <<ev.drive_value>> ELSE None,
     actual_speed |-> IF ev.sign_type = "speed_limit" THEN <<ev.drive_value>> ELSE None,
     no_horn_zone |-> ev.sign_type = "no_horn",
     horn_applied |-> IF ev.sign_type = "no_horn" THEN ev.drive_value = 1 ELSE FALSE,
     seatbelt_required |-> vehicle_type = "four_wheeler",
     seatbelt_worn |-> IF ev.sign_type = "seatbelt" THEN ev.drive_value = 1 ELSE FALSE,
     violation_type |-> "no_violation",
     compliance_score |-> 100]

\* Faulty variant: the lowest tier is tested first.
TokensFor_lowest_first(score) ==
    IF score >= 50 THEN 2
    ELSE IF score >= 70 THEN 5
    ELSE IF score >= 90 THEN 10
    ELSE 0

\* Token tiers of expensetrackerapp (expensetrackerapp/views.py 67-74).
TokensForExpense(score) ==
    IF score >= 90 THEN 5
    ELSE IF score >= 80 THEN 3
    ELSE IF score >= 70 THEN 1
    ELSE 0

\* Token tiers of drivewise (views.py 64-71).
TokensFor(score) ==
    IF score >= 90 THEN 10
    ELSE IF score >= 70 THEN 5
    ELSE IF score >= 50 THEN 2
    ELSE 0

\* Faulty variant: three entries do not yet qualify.
qualification_status_exclusive(trips) ==
    IF trips > 3 THEN <<"Qualified">> ELSE <<"Needs", 3 - trips>>

\* The qualification_status string of the 201 response (views.py 111):
\* 'Qualified', or 'Needs n more entries' given as its number n.
qualification_status(trips) ==
    IF trips >= 3 THEN <<"Qualified">> ELSE <<"Needs", 3 - trips>>

\* Faulty variant: the view has no outer except, the exception leaves it.
ErrorResp_raised(op, code) == [op |-> op, status |-> "exception", code |-> code]

\* The response of a view's outer except Exception (or of an explicit
\* error return): {'error': ...} with an HTTP status.
ErrorResp(op, code) == [op |-> op, status |-> "error", code |-> code]

\* The 500 response of a handler whose outer except caught an exception of
\* blockchain_service.is_connected(): the body carries str(e).
ProbeErrorResp(op) ==
    [op |-> op, status |-> "error", code |-> 500, error |-> "is_connected"]

(***************************************************************************)
(* Init: empty tables, no request in flight                                *)
(***************************************************************************)
Init ==
    /\ vehicle = [v \in Vehicles |-> "absent"]
    /\ records = [v \in Vehicles |-> EmptyBag]
    /\ reward = [v \in Vehicles |-> <<>>]
    /\ leaderboard = [v \in Vehicles |-> <<>>]
    /\ pc = [p \in Procs |-> "idle"]
    /\ local = [p \in Procs |-> NoLocal]
    /\ resp = [p \in Procs |-> NoResp]
    /\ instance = NoInstance

(***************************************************************************)
(* process_sensor_data (drivewise/views.py 17-121)                         *)
(***************************************************************************)
\* Lines 33-71: Vehicle.get_or_create (vehicle_id is unique, a new vehicle is
\* a four_wheeler), the ComplianceRecord insert through save(), the score
\* recomputed on the instance, the token tier.
PsdCreateRecord(p, v, ev) ==
    /\ pc[p] = "idle"
    /\ LET vtype == IF vehicle[v] = "absent" THEN "four_wheeler" ELSE vehicle[v]
           compliance_record == ComplianceRecord_save(SensorRecord(ev, vtype))
           compliance_score == calculate_compliance_score(compliance_record)
       IN  /\ vehicle' = [vehicle EXCEPT ![v] = vtype]
           /\ records' = [records EXCEPT ![v] = @ (+) SetToBag({compliance_record})]
           /\ local' = [local EXCEPT ![p] =
                  [NoLocal EXCEPT !.vehicle = v,
                                  !.violation_type = compliance_record.violation_type,
                                  !.compliance_score = compliance_score,
                                  !.tokens_earned = TokensFor(compliance_score)]]
    /\ pc' = [pc EXCEPT ![p] = "psd_get"]
    /\ UNCHANGED <<reward, leaderboard, resp, instance>>

\* Line 74, the SELECT of RewardToken.objects.get_or_create(vehicle=vehicle):
\* one row is loaded into reward_token, no row sends get_or_create on to its
\* INSERT.
PsdGetReward(p) ==
    /\ pc[p] = "psd_get"
    /\ Len(reward[local[p].vehicle]) <= 1
    /\ IF reward[local[p].vehicle] = <<>>
       THEN /\ pc' = [pc EXCEPT ![p] = "psd_create"]
            /\ local' = local
       ELSE /\ pc' = [pc EXCEPT ![p] = "psd_save"]
            /\ local' = [local EXCEPT ![p].reward_token = reward[local[p].vehicle][1]]
    /\ UNCHANGED <<db, resp, instance>>

\* Line 74 with several rows for the vehicle: get() raises
\* MultipleObjectsReturned, the handler's except returns the 500 response.
PsdGetRewardFails(p) ==
    /\ pc[p] = "psd_get"
    /\ Len(reward[local[p].vehicle]) > 1
    /\ resp' = [resp EXCEPT ![p] = ErrorResp("process_sensor_data", 500)]
    /\ pc' = [pc EXCEPT ![p] = "done"]
    /\ UNCHANGED <<db, local, instance>>

\* Lines 74-77, the INSERT of get_or_create: RewardToken.vehicle is a plain
\* ForeignKey, no constraint rejects a second row for the vehicle.
PsdCreateReward(p) ==
    /\ pc[p] = "psd_create"
    /\ reward' = [reward EXCEPT ![local[p].vehicle] =
           Append(@, [tokens_earned |-> local[p].tokens_earned, tokens_spent |-> 0])]
    /\ pc' = [pc EXCEPT ![p] = "psd_rank"]
    /\ UNCHANGED <<vehicle, records, leaderboard, local, resp, instance>>

\* The row reward_token.save() writes at lines 79-80: every field of the
\* instance, tokens_earned raised by the award.
AwardedRow(row, tokens_earned) ==
    [row EXCEPT !.tokens_earned = row.tokens_earned + tokens_earned]

\* Lines 78-80: the UPDATE of the loaded row.
PsdSaveReward(p) ==
    /\ pc[p] = "psd_save"
    /\ reward' = [reward EXCEPT ![local[p].vehicle][1] =
           AwardedRow(local[p].reward_token, local[p].tokens_earned)]
    /\ local' = [local EXCEPT ![p].reward_token = NoRow]
    /\ pc' = [pc EXCEPT ![p] = "psd_rank"]
    /\ UNCHANGED <<vehicle, records, leaderboard, resp, instance>>

\* Line 83: blockchain_service.is_connected() is called outside the inner
\* try of lines 84-89, and BlockchainService.is_connected (blockchain_service.py
\* 94-98) passes on whatever the web3 probe raises: the outer except answers
\* 500 after the record and the ledger have been written.
PsdProbeFails(p) ==
    /\ pc[p] = "psd_rank"
    /\ resp' = [resp EXCEPT ![p] = ProbeErrorResp("process_sensor_data")]
    /\ pc' = [pc EXCEPT ![p] = "done"]
    /\ UNCHANGED <<db, local, instance>>

\* Lines 83-115 with the probe answering True or False: the sync calls are
\* inside the inner try and write no table; then the rank recompute, the
\* vehicle's entry read back, the 201 response.
PsdRank(p) ==
    /\ pc[p] = "psd_rank"
    /\ \E lb \in update_all_rankings(leaderboard, records, reward) :
         /\ leaderboard' = lb
         /\ resp' = [resp EXCEPT ![p] =
                [op |-> "process_sensor_data", status |-> "success", code |-> 201,
                 violation_type |-> local[p].violation_type,
                 compliance_score |-> local[p].compliance_score,
                 tokens_earned |-> local[p].tokens_earned,
                 total_trips |-> total_trips(records[local[p].vehicle]),
                 qualification_status |->
                     qualification_status(total_trips(records[local[p].vehicle])),
                 current_rank |-> IF lb[local[p].vehicle] = <<>> THEN None
                                  ELSE <<lb[local[p].vehicle][1].rank>>]]
    /\ pc' = [pc EXCEPT ![p] = "done"]
    /\ UNCHANGED <<vehicle, records, reward, local, instance>>

(***************************************************************************)
(* spend_tokens (drivewise/views.py 171-210; expensetrackerapp/views.py    *)
(* 146-173 is the same read, check and save)                               *)
(***************************************************************************)
\* Faulty variant: the comparison of the balance check is reversed.
Insufficient_reversed(row, amount) == tokens_available(row) > amount

\* Faulty variant: the balance check is missing.
Insufficient_missing(row, amount) == FALSE

\* Line 184: the balance check on the loaded instance.
Insufficient(row, amount) == tokens_available(row) < amount

\* The row reward_token.save() writes at lines 190-191: every field of the
\* instance, tokens_spent raised by the amount.
SpentRow(row, amount) == [row EXCEPT !.tokens_spent = row.tokens_spent + amount]

\* Lines 178-179 when a get_object_or_404 raises (no such vehicle, no ledger
\* row, or several rows): the handler's except returns the 500 response.
SpendLookupFails(p, v, amount) ==
    /\ pc[p] = "idle"
    /\ vehicle[v] = "absent" \/ Len(reward[v]) # 1
    /\ resp' = [resp EXCEPT ![p] = ErrorResp("spend_tokens", 500)]
    /\ pc' = [pc EXCEPT ![p] = "done"]
    /\ UNCHANGED <<db, local, instance>>

\* Lines 178-188: the ledger row is loaded and the amount exceeds its balance.
SpendRejected(p, v, amount) ==
    /\ pc[p] = "idle"
    /\ vehicle[v] # "absent" /\ Len(reward[v]) = 1
    /\ Insufficient(reward[v][1], amount)
    /\ local' = [local EXCEPT ![p] = [NoLocal EXCEPT !.vehicle = v, !.amount = amount]]
    /\ resp' = [resp EXCEPT ![p] = ErrorResp("spend_tokens", 400)]
    /\ pc' = [pc EXCEPT ![p] = "done"]
    /\ UNCHANGED <<db, instance>>

\* Lines 178-184: the ledger row is loaded and the check passes.
SpendRead(p, v, amount) ==
    /\ pc[p] = "idle"
    /\ vehicle[v] # "absent" /\ Len(reward[v]) = 1
    /\ ~Insufficient(reward[v][1], amount)
    /\ local' = [local EXCEPT ![p] =
           [NoLocal EXCEPT !.vehicle = v, !.amount = amount, !.reward_token = reward[v][1]]]
    /\ pc' = [pc EXCEPT ![p] = "spend_save"]
    /\ UNCHANGED <<db, resp, instance>>

\* Lines 190-204: the UPDATE of the loaded row and the success response.
SpendSave(p) ==
    /\ pc[p] = "spend_save"
    /\ LET row == SpentRow(local[p].reward_token, local[p].amount)
       IN  /\ reward' = [reward EXCEPT ![local[p].vehicle][1] = row]
           /\ resp' = [resp EXCEPT ![p] =
                  [op |-> "spend_tokens", status |-> "success", code |-> 200,
                   amount |-> local[p].amount,
                   tokens_available |-> tokens_available(row)]]
    /\ local' = [local EXCEPT ![p].reward_token = NoRow]
    /\ pc' = [pc EXCEPT ![p] = "done"]
    /\ UNCHANGED <<vehicle, records, leaderboard, instance>>

\* Lines 190-194 and 206-210: the UPDATE of the loaded row, then
\* is_connected() raising outside the inner try of lines 195-198.
SpendSaveProbeFails(p) ==
    /\ pc[p] = "spend_save"
    /\ reward' = [reward EXCEPT ![local[p].vehicle][1] =
                     SpentRow(local[p].reward_token, local[p].amount)]
    /\ resp' = [resp EXCEPT ![p] = ProbeErrorResp("spend_tokens")]
    /\ local' = [local EXCEPT ![p].reward_token = NoRow]
    /\ pc' = [pc EXCEPT ![p] = "done"]
    /\ UNCHANGED <<vehicle, records, leaderboard, instance>>

(***************************************************************************)
(* get_reward_tokens (drivewise/views.py 149-169)                          *)
(***************************************************************************)
\* Lines 156-157 raising: no such vehicle, or several ledger rows.
TokLookupFails(p, v) ==
    /\ pc[p] = "idle"
    /\ vehicle[v] = "absent" \/ Len(reward[v]) > 1
    /\ resp' = [resp EXCEPT ![p] = ErrorResp("get_reward_tokens", 500)]
    /\ pc' = [pc EXCEPT ![p] = "done"]
    /\ UNCHANGED <<db, local, instance>>

\* Lines 157-163 with the ledger row present: it is serialized.
TokRead(p, v) ==
    /\ pc[p] = "idle"
    /\ vehicle[v] # "absent" /\ Len(reward[v]) = 1
    /\ resp' = [resp EXCEPT ![p] =
           [op |-> "get_reward_tokens", status |-> "success", code |-> 200,
            tokens_earned |-> reward[v][1].tokens_earned,
            tokens_spent |-> reward[v][1].tokens_spent]]
    /\ pc' = [pc EXCEPT ![p] = "done"]
    /\ UNCHANGED <<db, local, instance>>

\* Line 157, the SELECT of get_or_create finding no row.
TokMiss(p, v) ==
    /\ pc[p] = "idle"
    /\ vehicle[v] # "absent" /\ reward[v] = <<>>
    /\ local' = [local EXCEPT ![p] = [NoLocal EXCEPT !.vehicle = v]]
    /\ pc' = [pc EXCEPT ![p] = "tok_create"]
    /\ UNCHANGED <<db, resp, instance>>

\* Lines 157-163, the INSERT of get_or_create with the zero defaults.
TokCreate(p) ==
    /\ pc[p] = "tok_create"
    /\ reward' = [reward EXCEPT ![local[p].vehicle] = Append(@, NoRow)]
    /\ resp' = [resp EXCEPT ![p] =
           [op |-> "get_reward_tokens", status |-> "success", code |-> 200,
            tokens_earned |-> 0, tokens_spent |-> 0]]
    /\ pc' = [pc EXCEPT ![p] = "done"]
    /\ UNCHANGED <<vehicle, records, leaderboard, local, instance>>

(***************************************************************************)
(* get_leaderboard (drivewise/views.py 250-311)                            *)
(***************************************************************************)
GetLeaderboard(p) ==
    /\ pc[p] = "idle"
    /\ \E lb \in update_all_rankings(leaderboard, records, reward) :
         leaderboard' = lb
    /\ resp' = [resp EXCEPT ![p] =
           [op |-> "get_leaderboard", status |-> "success", code |-> 200]]
    /\ pc' = [pc EXCEPT ![p] = "done"]
    /\ UNCHANGED <<vehicle, records, reward, local, instance>>

\* Lines 258 and 287 (or 303): the pass, then is_connected() raising outside
\* the inner try of lines 288-291.
GetLeaderboardProbeFails(p) ==
    /\ pc[p] = "idle"
    /\ \E lb \in update_all_rankings(leaderboard, records, reward) :
         leaderboard' = lb
    /\ resp' = [resp EXCEPT ![p] = ProbeErrorResp("get_leaderboard")]
    /\ pc' = [pc EXCEPT ![p] = "done"]
    /\ UNCHANGED <<vehicle, records, reward, local, instance>>

\* The Response leaves the view: the handler is free for the next request.
Return(p) ==
    /\ pc[p] = "done"
    /\ pc' = [pc EXCEPT ![p] = "idle"]
    /\ local' = [local EXCEPT ![p] = NoLocal]
    /\ resp' = [resp EXCEPT ![p] = NoResp]
    /\ UNCHANGED <<db, instance>>

(***************************************************************************)
(* The API under concurrent requests                                       *)
(***************************************************************************)
\* Rows in the ComplianceRecord table.
RECURSIVE CountRows(_, _)
CountRows(recs, S) ==
    IF S = {} THEN 0
    ELSE LET v == CHOOSE x \in S : TRUE
         IN  total_trips(recs[v]) + CountRows(recs, S \ {v})

RecordCount == CountRows(records, Vehicles)

Next ==
    \E p \in Procs :
        \/ /\ RecordCount < MaxRecords
           /\ \E v \in Vehicles, ev \in SensorEvents : PsdCreateRecord(p, v, ev)
        \/ PsdGetReward(p)
        \/ PsdGetRewardFails(p)
        \/ PsdCreateReward(p)
        \/ PsdSaveReward(p)
        \/ PsdRank(p)
        \/ \E v \in Vehicles, amount \in Amounts : SpendLookupFails(p, v, amount)
        \/ \E v \in Vehicles, amount \in Amounts : SpendRejected(p, v, amount)
        \/ \E v \in Vehicles, amount \in Amounts : SpendRead(p, v, amount)
        \/ SpendSave(p)
        \/ \E v \in Vehicles : TokLookupFails(p, v)
        \/ \E v \in Vehicles : TokRead(p, v)
        \/ \E v \in Vehicles : TokMiss(p, v)
        \/ TokCreate(p)
        \/ GetLeaderboard(p)
        \/ Return(p)

Spec == Init /\ [][Next]_vars

(***************************************************************************)
(* The same API with a blockchain collaborator whose liveness probe may    *)
(* raise instead of answering.                                             *)
(***************************************************************************)
NextChain ==
    \/ Next
    \/ \E p \in Procs :
          \/ PsdProbeFails(p)
          \/ SpendSaveProbeFails(p)
          \/ GetLeaderboardProbeFails(p)

SpecChain == Init /\ [][NextChain]_vars

(***************************************************************************)
(* The API called sequentially: one handler, each request runs to its      *)
(* response before the next starts.  With one handler no vehicle ever has  *)
(* two ledger rows and none is without a ledger once it exists, so the     *)
(* steps PsdGetRewardFails, TokMiss and TokCreate are never enabled.       *)
(***************************************************************************)
\* Most ComplianceRecord rows in the sequential specification.
MaxSeqRecords == 7

NextSeq ==
    LET p == "p1"
    IN  \/ /\ RecordCount < MaxSeqRecords
           /\ \E v \in Vehicles, ev \in SensorEvents : PsdCreateRecord(p, v, ev)
        \/ PsdGetReward(p)
        \/ PsdCreateReward(p)
        \/ PsdSaveReward(p)
        \/ PsdProbeFails(p)
        \/ PsdRank(p)
        \/ \E v \in Vehicles, amount \in Amounts : SpendLookupFails(p, v, amount)
        \/ \E v \in Vehicles, amount \in Amounts : SpendRejected(p, v, amount)
        \/ \E v \in Vehicles, amount \in Amounts : SpendRead(p, v, amount)
        \/ SpendSave(p)
        \/ SpendSaveProbeFails(p)
        \/ \E v \in Vehicles : TokLookupFails(p, v)
        \/ \E v \in Vehicles : TokRead(p, v)
        \/ GetLeaderboard(p)
        \/ GetLeaderboardProbeFails(p)
        \/ Return(p)

SpecSeq == Init /\ [][NextSeq]_vars

(***************************************************************************)
(* Scoring on its own: a caller builds a ComplianceRecord with any field   *)
(* values, a compliance_score of its own included, and saves it            *)
(* (ComplianceRecord.objects.create, the admin's add form).                *)
(***************************************************************************)
InitScore ==
    /\ vehicle = [v \in Vehicles |-> "four_wheeler"]
    /\ records = [v \in Vehicles |-> EmptyBag]
    /\ reward = [v \in Vehicles |-> <<>>]
    /\ leaderboard = [v \in Vehicles |-> <<>>]
    /\ pc = [p \in Procs |-> "idle"]
    /\ local = [p \in Procs |-> NoLocal]
    /\ resp = [p \in Procs |-> NoResp]
    /\ instance \in RecordInstances

\* ComplianceRecord(vehicle=v, **fields).save(): the row save() produces is
\* inserted, and the instance in memory carries the stored values.
OrmCreateRecord(v) ==
    /\ instance # NoInstance
    /\ vehicle[v] # "absent"
    /\ records' = [records EXCEPT ![v] = @ (+) SetToBag({ComplianceRecord_save(instance)})]
    /\ instance' = NoInstance
    /\ UNCHANGED <<vehicle, reward, leaderboard, pc, local, resp>>

NextScore == \E v \in Vehicles : OrmCreateRecord(v)

SpecScore == InitScore /\ [][NextScore]_vars

(***************************************************************************)
(* The token tiers on their own: an event of either application has been   *)
(* scored, and process_sensor_data derives its token delta.                *)
(***************************************************************************)
Variants == {"drivewise", "expensetrackerapp"}

\* The scores an event can have (the IntegerField holds the 0..100 value of
\* calculate_compliance_score).
Scores == 0..100

InitTier ==
    /\ vehicle = [v \in Vehicles |-> "four_wheeler"]
    /\ records = [v \in Vehicles |-> EmptyBag]
    /\ reward = [v \in Vehicles |-> <<>>]
    /\ leaderboard = [v \in Vehicles |-> <<>>]
    /\ pc = [p \in Procs |-> "idle"]
    /\ local = [p \in Procs |-> NoLocal]
    /\ resp = [p \in Procs |-> NoResp]
    /\ instance \in [variant : Variants, compliance_score : Scores]

\* drivewise/views.py 60-71 and 102-108, expensetrackerapp/views.py 67-74
\* and 93-97: the if/elif chain on the score, and the delta reported in the
\* response.
AwardTier(p) ==
    /\ pc[p] = "idle"
    /\ instance # NoInstance
    /\ resp' = [resp EXCEPT ![p] =
           [op |-> "process_sensor_data", status |-> "success", code |-> 201,
            variant |-> instance.variant,
            compliance_score |-> instance.compliance_score,
            tokens_earned |-> IF instance.variant = "drivewise"
                              THEN TokensFor(instance.compliance_score)
                              ELSE TokensForExpense(instance.compliance_score)]]
    /\ pc' = [pc EXCEPT ![p] = "done"]
    /\ instance' = NoInstance
    /\ UNCHANGED <<db, local>>

NextTier == \E p \in Procs : AwardTier(p)

SpecTier == InitTier /\ [][NextTier]_vars

(***************************************************************************)
(* Ranking on its own: records of any violation_type are added through the *)
(* ORM or the admin's add form, and update_all_rankings runs alone         *)
(* (get_leaderboard, the admin's update_rankings action).                  *)
(***************************************************************************)
\* Most records a vehicle gets in the ranking specification.
MaxBoardTrips == 4

\* Instances the add form submits: a clean record and a speeding record
\* whose violation_type is filled in.
BoardInstances ==
    {[speed_limit |-> None, actual_speed |-> None,
      no_horn_zone |-> FALSE, horn_applied |-> FALSE,
      seatbelt_required |-> FALSE, seatbelt_worn |-> FALSE,
      violation_type |-> "no_violation", compliance_score |-> 100],
     [speed_limit |-> <<40>>, actual_speed |-> <<41>>,
      no_horn_zone |-> FALSE, horn_applied |-> FALSE,
      seatbelt_required |-> FALSE, seatbelt_worn |-> FALSE,
      violation_type |-> "speed_violation", compliance_score |-> 100]}

InitBoard ==
    /\ vehicle = [v \in Vehicles |-> "four_wheeler"]
    /\ records = [v \in Vehicles |-> EmptyBag]
    /\ reward = [v \in Vehicles |-> <<>>]
    /\ leaderboard = [v \in Vehicles |-> <<>>]
    /\ pc = [p \in Procs |-> "idle"]
    /\ local = [p \in Procs |-> NoLocal]
    /\ resp = [p \in Procs |-> NoResp]
    /\ instance = NoInstance

\* ComplianceRecord(vehicle=v, **fields).save() for one of the instances.
AdminAddRecord(v, r) ==
    /\ total_trips(records[v]) < MaxBoardTrips
    /\ records' = [records EXCEPT ![v] = @ (+) SetToBag({ComplianceRecord_save(r)})]
    /\ UNCHANGED <<vehicle, reward, leaderboard, pc, local, resp, instance>>

\* Leaderboard.update_all_rankings() from start to end, nothing else running.
RunRankings ==
    /\ leaderboard' \in update_all_rankings(leaderboard, records, reward)
    /\ UNCHANGED <<vehicle, records, reward, pc, local, resp, instance>>

NextBoard ==
    \/ \E v \in Vehicles, r \in BoardInstances : AdminAddRecord(v, r)
    \/ RunRankings

SpecBoard == InitBoard /\ [][NextBoard]_vars

(***************************************************************************)
(* The aggregates on their own: records of each of the five violation      *)
(* types are added through the ORM or the admin's add form.                *)
(***************************************************************************)
\* One instance per entry of VIOLATION_TYPES, the other fields clean.
TypedInstances ==
    {[speed_limit |-> None, actual_speed |-> None,
      no_horn_zone |-> FALSE, horn_applied |-> FALSE,
      seatbelt_required |-> FALSE, seatbelt_worn |-> FALSE,
      violation_type |-> t, compliance_score |-> 100] : t \in ViolationTypes}

NextTrips == \E v \in Vehicles, r \in TypedInstances : AdminAddRecord(v, r)

SpecTrips == InitBoard /\ [][NextTrips]_vars

(***************************************************************************)
(* Ranking statement by statement: every query and every save() of         *)
(* update_all_rankings commits on its own (autocommit, no transaction), so *)
(* the passes of two requests interleave between any two of them.          *)
(***************************************************************************)
\* Most ComplianceRecord rows in the statement-level ranking specification.
MaxRankRecords == 7

\* Records each vehicle has when the specification starts: one short of
\* qualifying.
StartTrips == MinEntries - 1

\* The event posted in this specification: seatbelt worn, score 100.
RankEvent == [sign_type |-> "seatbelt", drive_value |-> 1]

\* The order in which Vehicle rows come out of the first query.
VehicleOrder == <<"v1", "v2">>

\* Locals of a pass: vehicles still to refresh, the entry get_or_create
\* returned, entries still to rank, the next value of enumerate.
PassLocal(todo, entry, entries, rank) ==
    [todo |-> todo, leaderboard_entry |-> entry, entries |-> entries, rank |-> rank]

\* vehicles_with_records (models.py 231-237), evaluated by the for loop.
vehicles_with_records(recs) ==
    SelectSeq(VehicleOrder, LAMBDA v : total_trips(recs[v]) >= MinEntries)

\* The database after StartTrips sequential posts of RankEvent per vehicle:
\* nobody qualifies yet, so the Leaderboard table is empty.
InitRank ==
    LET r == ComplianceRecord_save(SensorRecord(RankEvent, "four_wheeler"))
    IN  /\ vehicle = [v \in Vehicles |-> "four_wheeler"]
        /\ records = [v \in Vehicles |-> [x \in {r} |-> StartTrips]]
        /\ reward = [v \in Vehicles |->
                        <<[tokens_earned |-> StartTrips * TokensFor(r.compliance_score),
                           tokens_spent |-> 0]>>]
        /\ leaderboard = [v \in Vehicles |-> <<>>]
        /\ pc = [p \in Procs |-> "idle"]
        /\ local = [p \in Procs |-> NoLocal]
        /\ resp = [p \in Procs |-> NoResp]
        /\ instance = NoInstance

\* process_sensor_data up to the call of update_all_rankings (views.py
\* 33-92): record insert, ledger award, and the first query of the pass.
RkSensorData(p, v) ==
    /\ pc[p] = "idle"
    /\ LET r == ComplianceRecord_save(SensorRecord(RankEvent, vehicle[v]))
           recs == [records EXCEPT ![v] = @ (+) SetToBag({r})]
       IN  /\ records' = recs
           /\ reward' = [reward EXCEPT ![v][1] =
                            AwardedRow(@, TokensFor(calculate_compliance_score(r)))]
           /\ local' = [local EXCEPT ![p] =
                            PassLocal(vehicles_with_records(recs), <<>>, <<>>, 1)]
    /\ pc' = [pc EXCEPT ![p] = "rk_refresh"]
    /\ resp' = [resp EXCEPT ![p] = NoResp]
    /\ UNCHANGED <<vehicle, leaderboard, instance>>

\* get_leaderboard up to the first query of the pass (views.py 256-258).
RkLeaderboard(p) ==
    /\ pc[p] = "idle"
    /\ local' = [local EXCEPT ![p] =
                    PassLocal(vehicles_with_records(records), <<>>, <<>>, 1)]
    /\ pc' = [pc EXCEPT ![p] = "rk_refresh"]
    /\ resp' = [resp EXCEPT ![p] = NoResp]
    /\ UNCHANGED <<db, instance>>

\* models.py 241: get_or_create returns the vehicle's row, inserting one
\* with the field defaults (rank 0 among them) when there is none; the
\* vehicle column is unique, so a second row is never inserted.
RkGetOrCreate(p) ==
    /\ pc[p] = "rk_refresh"
    /\ local[p].todo # <<>>
    /\ LET v == Head(local[p].todo)
           row == IF leaderboard[v] = <<>> THEN NewLeaderboardRow ELSE leaderboard[v][1]
       IN  /\ leaderboard' = [leaderboard EXCEPT ![v] = <<row>>]
           /\ local' = [local EXCEPT ![p].leaderboard_entry = row]
    /\ pc' = [pc EXCEPT ![p] = "rk_stats"]
    /\ UNCHANGED <<vehicle, records, reward, resp, instance>>

\* models.py 242: update_stats overwrites the cached fields of the instance
\* in hand and saves it, rank included.
RkUpdateStats(p) ==
    /\ pc[p] = "rk_stats"
    /\ LET v == Head(local[p].todo)
       IN  leaderboard' = [leaderboard EXCEPT ![v] =
               <<update_stats(local[p].leaderboard_entry, records[v], reward[v])>>]
    /\ local' = [local EXCEPT ![p].todo = Tail(@), ![p].leaderboard_entry = <<>>]
    /\ pc' = [pc EXCEPT ![p] = "rk_refresh"]
    /\ UNCHANGED <<vehicle, records, reward, resp, instance>>

\* The rows of lb in the order f, each with the vehicle it belongs to.
SortedEntries(lb, f) ==
    [i \in 1..Cardinality(Entries(lb)) |->
        LET e == CHOOSE x \in Entries(lb) : f[x] = i
        IN  <<e[1], lb[e[1]][e[2]]>>]

\* models.py 248-252: the ordered query is evaluated once, when the second
\* loop starts; the instances it returned are what the loop saves.
RkRead(p) ==
    /\ pc[p] = "rk_refresh"
    /\ local[p].todo = <<>>
    /\ \E f \in Orderings(leaderboard) :
          LET entries == SortedEntries(leaderboard, f)
          IN  /\ local' = [local EXCEPT ![p] =
                              IF entries = <<>> THEN NoLocal
                              ELSE PassLocal(<<>>, <<>>, entries, 1)]
              /\ pc' = [pc EXCEPT ![p] = IF entries = <<>> THEN "idle" ELSE "rk_assign"]
    /\ UNCHANGED <<db, resp, instance>>

\* models.py 252-254, one iteration: entry.rank = rank; entry.save() writes
\* every field of the instance read by RkRead.  After the last entry the
\* pass is over and the handler returns.
RkAssign(p) ==
    /\ pc[p] = "rk_assign"
    /\ LET v == Head(local[p].entries)[1]
           entry == Head(local[p].entries)[2]
           last == Tail(local[p].entries) = <<>>
       IN  /\ leaderboard' = [leaderboard EXCEPT ![v] =
                                 <<[entry EXCEPT !.rank = local[p].rank]>>]
           /\ local' = [local EXCEPT ![p] =
                           IF last THEN NoLocal
                           ELSE PassLocal(<<>>, <<>>, Tail(local[p].entries),
                                          local[p].rank + 1)]
           /\ pc' = [pc EXCEPT ![p] = IF last THEN "idle" ELSE "rk_assign"]
    /\ UNCHANGED <<vehicle, records, reward, resp, instance>>

\* get_vehicle_ranking (views.py 313-349) for a qualifying vehicle: one
\* read of the vehicle's entry, answered with its rank, or with 404 when
\* the vehicle has no entry yet.
RkVehicleRanking(p, v) ==
    /\ pc[p] = "idle"
    /\ qualifies_for_leaderboard(records[v])
    /\ resp' = [resp EXCEPT ![p] =
                   IF leaderboard[v] = <<>>
                   THEN ErrorResp("get_vehicle_ranking", 404)
                   ELSE [op |-> "get_vehicle_ranking", status |-> "success",
                         rank |-> leaderboard[v][1].rank]]
    /\ UNCHANGED <<db, pc, local, instance>>

NextRank ==
    \E p \in Procs :
        \/ /\ RecordCount < MaxRankRecords
           /\ \E v \in Vehicles : RkSensorData(p, v)
        \/ RkLeaderboard(p)
        \/ RkGetOrCreate(p)
        \/ RkUpdateStats(p)
        \/ RkRead(p)
        \/ RkAssign(p)
        \/ \E v \in Vehicles : RkVehicleRanking(p, v)

SpecRank == InitRank /\ [][NextRank]_vars

(***************************************************************************)
(* Every operation of the API, the read-only ones (drivewise/views.py      *)
(* 123-147, 212-248, 313-349) included, with a blockchain collaborator     *)
(* whose liveness probe may raise.  A property of Vehicle                  *)
(* (total_trips, qualifies_for_leaderboard) is a COUNT query each time it  *)
(* is read, so a view that reads it twice may see two values.  The lookup  *)
(* of the vehicle is taken together with the first query after it: no      *)
(* operation deletes a vehicle.                                            *)
(***************************************************************************)
\* Most ComplianceRecord rows in this specification.
MaxQueryRecords == 3

\* Locals of a read-only view: the vehicle and the count it has read.
QueryLocal(v, trips) == [vehicle |-> v, total_trips |-> trips]

\* The 400 body of get_vehicle_ranking (views.py 323-327).
NotQualifiedResp(trips, needed) ==
    [op |-> "get_vehicle_ranking", status |-> "error", code |-> 400,
     total_trips |-> trips, needed_entries |-> needed]

\* The 500 response of get_dashboard_stats whose outer except caught the
\* AttributeError of vehicle.rewardtoken.
AttributeErrorResp(op) ==
    [op |-> op, status |-> "error", code |-> 500, error |-> "rewardtoken"]

\* get_object_or_404(Vehicle, vehicle_id=vehicle_id) raising Http404 in a
\* read-only view: the view's except Exception answers 500.
QueryLookupFails(p, v, op) ==
    /\ pc[p] = "idle"
    /\ vehicle[v] = "absent"
    /\ local' = [local EXCEPT ![p] = QueryLocal(v, 0)]
    /\ resp' = [resp EXCEPT ![p] = ErrorResp(op, 500)]
    /\ pc' = [pc EXCEPT ![p] = "done"]
    /\ UNCHANGED <<db, instance>>

\* get_vehicle_ranking, lines 320-322: the vehicle is found and
\* qualifies_for_leaderboard is read.
GvrQualifies(p, v) ==
    /\ pc[p] = "idle"
    /\ vehicle[v] # "absent"
    /\ local' = [local EXCEPT ![p] = QueryLocal(v, 0)]
    /\ pc' = [pc EXCEPT ![p] =
                 IF qualifies_for_leaderboard(records[v]) THEN "gvr_entry" ELSE "gvr_trips"]
    /\ UNCHANGED <<db, resp, instance>>

\* Line 325: 'total_trips': vehicle.total_trips.
GvrTrips(p) ==
    /\ pc[p] = "gvr_trips"
    /\ local' = [local EXCEPT ![p].total_trips = total_trips(records[local[p].vehicle])]
    /\ pc' = [pc EXCEPT ![p] = "gvr_needed"]
    /\ UNCHANGED <<db, resp, instance>>

\* Lines 326-327: 'needed_entries': 3 - vehicle.total_trips, and the 400.
GvrNeeded(p) ==
    /\ pc[p] = "gvr_needed"
    /\ resp' = [resp EXCEPT ![p] =
                   NotQualifiedResp(local[p].total_trips,
                                    3 - total_trips(records[local[p].vehicle]))]
    /\ pc' = [pc EXCEPT ![p] = "done"]
    /\ UNCHANGED <<db, local, instance>>

\* Lines 329-343: the vehicle's entry is read and answered, or 404 when
\* there is none.
GvrEntry(p) ==
    /\ pc[p] = "gvr_entry"
    /\ LET v == local[p].vehicle
       IN  resp' = [resp EXCEPT ![p] =
                       IF leaderboard[v] = <<>>
                       THEN ErrorResp("get_vehicle_ranking", 404)
                       ELSE [op |-> "get_vehicle_ranking", status |-> "success",
                             code |-> 200, rank |-> leaderboard[v][1].rank,
                             total_trips |-> leaderboard[v][1].total_trips]]
    /\ pc' = [pc EXCEPT ![p] = "done"]
    /\ UNCHANGED <<db, local, instance>>

\* get_vehicle_compliance, lines 130-136: the vehicle is found and
\* records.count() is read.
GvcCount(p, v) ==
    /\ pc[p] = "idle"
    /\ vehicle[v] # "absent"
    /\ local' = [local EXCEPT ![p] = QueryLocal(v, total_trips(records[v]))]
    /\ pc' = [pc EXCEPT ![p] = "gvc_answer"]
    /\ UNCHANGED <<db, resp, instance>>

\* Lines 137-140: compliance_rate, total_violations and the serialized rows.
\* No operation of the API writes violation_type, so the two aggregates do
\* not depend on when their counts are read.
GvcAnswer(p) ==
    /\ pc[p] = "gvc_answer"
    /\ LET recs == records[local[p].vehicle]
       IN  resp' = [resp EXCEPT ![p] =
                       [op |-> "get_vehicle_compliance", status |-> "success",
                        code |-> 200, total_records |-> local[p].total_trips,
                        compliance_rate |-> compliance_rate(recs),
                        total_violations |-> total_violations(recs),
                        records |-> total_trips(recs)]]
    /\ pc' = [pc EXCEPT ![p] = "done"]
    /\ UNCHANGED <<db, local, instance>>

\* get_dashboard_stats, lines 219-248, for a vehicle that exists: the
\* response dictionary reads vehicle.rewardtoken at lines 240-241, which
\* Vehicle does not have (RewardToken.vehicle is a ForeignKey, its reverse
\* accessor is rewardtoken_set); the AttributeError is raised while the
\* argument of getattr is evaluated and the view's except answers 500.
\* Everything before it only reads.
GdsAttributeError(p, v) ==
    /\ pc[p] = "idle"
    /\ vehicle[v] # "absent"
    /\ local' = [local EXCEPT ![p] = QueryLocal(v, 0)]
    /\ resp' = [resp EXCEPT ![p] = AttributeErrorResp("get_dashboard_stats")]
    /\ pc' = [pc EXCEPT ![p] = "done"]
    /\ UNCHANGED <<db, instance>>

\* The views whose first statement looks the vehicle up and that write
\* nothing.
QueryOps == {"get_vehicle_ranking", "get_vehicle_compliance", "get_dashboard_stats"}

\* The events posted in this specification: the views of interest do not
\* read the score.
QueryEvents == {RankEvent}

\* The vehicle ids events are posted for; the other id stays unknown to the
\* service, and every operation is also called with it.
PostedVehicles == {"v1"}

NextQuery ==
    \E p \in Procs :
        \/ /\ RecordCount < MaxQueryRecords
           /\ \E v \in PostedVehicles, ev \in QueryEvents : PsdCreateRecord(p, v, ev)
        \/ PsdGetReward(p)
        \/ PsdGetRewardFails(p)
        \/ PsdCreateReward(p)
        \/ PsdSaveReward(p)
        \/ PsdProbeFails(p)
        \/ PsdRank(p)
        \/ \E v \in Vehicles, amount \in Amounts : SpendLookupFails(p, v, amount)
        \/ \E v \in Vehicles, amount \in Amounts : SpendRejected(p, v, amount)
        \/ \E v \in Vehicles, amount \in Amounts : SpendRead(p, v, amount)
        \/ SpendSave(p)
        \/ SpendSaveProbeFails(p)
        \/ \E v \in Vehicles : TokLookupFails(p, v)
        \/ \E v \in Vehicles : TokRead(p, v)
        \/ \E v \in Vehicles : TokMiss(p, v)
        \/ TokCreate(p)
        \/ GetLeaderboard(p)
        \/ GetLeaderboardProbeFails(p)
        \/ \E v \in Vehicles, op \in QueryOps : QueryLookupFails(p, v, op)
        \/ \E v \in Vehicles : GvrQualifies(p, v)
        \/ GvrTrips(p)
        \/ GvrNeeded(p)
        \/ GvrEntry(p)
        \/ \E v \in Vehicles : GvcCount(p, v)
        \/ GvcAnswer(p)
        \/ \E v \in Vehicles : GdsAttributeError(p, v)
        \/ Return(p)

SpecQuery == Init /\ [][NextQuery]_vars

(***************************************************************************)
(* process_sensor_data over its inputs: events of every kind of sign with  *)
(* drive_value 0, 1 or a speed, for vehicles of every type (the admin      *)
(* registers vehicles of any type; the view creates four_wheelers),        *)
(* requests one at a time.                                                 *)
(***************************************************************************)
\* Most ComplianceRecord rows in this specification.
MaxEventRecords == 2

SignTypes == {"speed_limit", "no_horn", "seatbelt", "stop"}

DriveValues == {0, 1, 65}

EventInputs == [sign_type : SignTypes, drive_value : DriveValues]

InitEvent ==
    /\ vehicle \in [Vehicles -> VehicleTypes \cup {"absent"}]
    /\ records = [v \in Vehicles |-> EmptyBag]
    /\ reward = [v \in Vehicles |-> <<>>]
    /\ leaderboard = [v \in Vehicles |-> <<>>]
    /\ pc = [p \in Procs |-> "idle"]
    /\ local = [p \in Procs |-> NoLocal]
    /\ resp = [p \in Procs |-> NoResp]
    /\ instance = NoInstance

NextEvent ==
    LET p == "p1"
    IN  \/ /\ RecordCount < MaxEventRecords
           /\ \E v \in Vehicles, ev \in EventInputs : PsdCreateRecord(p, v, ev)
        \/ PsdGetReward(p)
        \/ PsdCreateReward(p)
        \/ PsdSaveReward(p)
        \/ PsdRank(p)
        \/ Return(p)

SpecEvent == InitEvent /\ [][NextEvent]_vars

(***************************************************************************)
(* Properties                                                              *)
(***************************************************************************)
\* Every row of the ComplianceRecord table.
StoredRecords == UNION {BagToSet(records[v]) : v \in Vehicles}

\* Every row of the RewardToken table.
LedgerRows == UNION {{reward[v][i] : i \in DOMAIN reward[v]} : v \in Vehicles}

\* C1: calculate_compliance_score returns a value in 0..100 for every
\* combination of the six inputs, and the compliance_score of every stored
\* ComplianceRecord is in 0..100.
C1_ScoreInRange ==
    /\ instance # NoInstance => calculate_compliance_score(instance) \in 0..100
    /\ \A r \in StoredRecords : r.compliance_score \in 0..100

\* C1 witness: a record with all three violations (excessive speed, horn in
\* a no-horn zone, seatbelt missing) has been saved.
C1_Witness ==
    \E r \in StoredRecords :
        /\ r.speed_limit = <<40>> /\ r.actual_speed = <<65>>
        /\ r.no_horn_zone /\ r.horn_applied
        /\ r.seatbelt_required /\ ~r.seatbelt_worn

\* The penalty sum P as the scoring rules state it.
C2_Penalty(r) ==
    LET speeding ==
            /\ r.speed_limit # None /\ r.speed_limit # <<0>>
            /\ r.actual_speed # None /\ r.actual_speed # <<0>>
            /\ r.actual_speed[1] > r.speed_limit[1]
    IN  (IF speeding THEN 20 ELSE 0)
        + (IF speeding /\ r.actual_speed[1] > r.speed_limit[1] + 20 THEN 10 ELSE 0)
        + (IF r.no_horn_zone /\ r.horn_applied THEN 15 ELSE 0)
        + (IF r.seatbelt_required /\ ~r.seatbelt_worn THEN 25 ELSE 0)

\* C2: the score of every saved record is max(0, 100 - P), P the sum of
\* the penalties that apply (20 for speeding, 10 more above limit + 20, 15
\* for the horn, 25 for the seatbelt); a missing or zero speed gives no speed
\* penalty; speed_limit 40 with actual_speed 65 and nothing else gives 70.
C2_ScoreIsHundredMinusPenalties ==
    \A r \in StoredRecords :
        /\ r.compliance_score = Max(0, 100 - C2_Penalty(r))
        /\ (r.speed_limit = None \/ r.speed_limit = <<0>>
            \/ r.actual_speed = None \/ r.actual_speed = <<0>>)
           => r.compliance_score
                = 100 - (IF r.no_horn_zone /\ r.horn_applied THEN 15 ELSE 0)
                      - (IF r.seatbelt_required /\ ~r.seatbelt_worn THEN 25 ELSE 0)
        /\ (/\ r.speed_limit = <<40>> /\ r.actual_speed = <<65>>
            /\ ~(r.no_horn_zone /\ r.horn_applied)
            /\ ~(r.seatbelt_required /\ ~r.seatbelt_worn))
           => r.compliance_score = 70

\* C2 witness: the record of the example (40, 65, no other violation) has
\* been saved with score 70.
C2_Witness ==
    \E r \in StoredRecords :
        /\ r.speed_limit = <<40>> /\ r.actual_speed = <<65>>
        /\ ~r.no_horn_zone /\ ~r.seatbelt_required
        /\ r.compliance_score = 70

\* C3: the stored compliance_score of every saved record is
\* calculate_compliance_score of its own stored fields, and the save step
\* stores that value whatever compliance_score the caller's instance carried.
C3_ScoreDerivedOnSave ==
    \A r \in StoredRecords : r.compliance_score = calculate_compliance_score(r)

\* C3 witness: a record with a horn and a seatbelt violation is stored with
\* score 60, which no caller supplied.
C3_Witness ==
    \E r \in StoredRecords :
        /\ r.compliance_score = 60
        /\ r.compliance_score \notin SuppliedScores
        /\ instance = NoInstance

\* The primary violation of a record: speed before horn before seatbelt.
C4_Primary(r) ==
    IF Truthy(r.speed_limit) /\ Truthy(r.actual_speed)
       /\ r.actual_speed[1] > r.speed_limit[1]
    THEN "speed_violation"
    ELSE IF r.no_horn_zone /\ r.horn_applied THEN "horn_violation"
    ELSE IF r.seatbelt_required /\ ~r.seatbelt_worn THEN "seatbelt_violation"
    ELSE "no_violation"

\* C4: the violation_type of every record process_sensor_data created names
\* its primary violation (speed > horn > seatbelt), and is no_violation only
\* when no penalty applied.
C4_ViolationTypeClassifies ==
    \A r \in StoredRecords : r.violation_type = C4_Primary(r)

\* C5: a spend request whose amount exceeds the available balance of the
\* vehicle's ledger ends in that step with an error response and changes no
\* table.
C5_OverspendRejectedUnchanged ==
    [][\A p \in Procs :
          LET v == local'[p].vehicle
              amount == local'[p].amount
          IN  (/\ pc[p] = "idle"
               /\ pc'[p] \in {"spend_save", "done"}
               /\ pc'[p] = "done" => resp'[p].op = "spend_tokens"
               /\ v \in Vehicles
               /\ Len(reward[v]) = 1
               /\ amount > reward[v][1].tokens_earned - reward[v][1].tokens_spent)
              => /\ pc'[p] = "done"
                 /\ resp'[p].status = "error"
                 /\ db' = db]_vars

\* C5 witness: a spend of more than the balance has been answered with the
\* 400 response while the ledger row holds less than the amount.
C5_Witness ==
    \E p \in Procs :
        /\ pc[p] = "done"
        /\ resp[p] = ErrorResp("spend_tokens", 400)
        /\ Len(reward[local[p].vehicle]) = 1
        /\ local[p].amount > tokens_available(reward[local[p].vehicle][1])
        /\ reward[local[p].vehicle][1].tokens_earned > 0

SpendSucceeded(p) ==
    pc[p] = "done" /\ resp[p].op = "spend_tokens" /\ resp[p].status = "success"

\* C6: two spend requests for one vehicle that have both returned success
\* spent, together, no more than the ledger's tokens_earned.
C6_NoDoubleSpend ==
    \A p, q \in Procs :
        (/\ p # q
         /\ SpendSucceeded(p) /\ SpendSucceeded(q)
         /\ local[p].vehicle = local[q].vehicle)
        => \A row \in {reward[local[p].vehicle][i] : i \in DOMAIN reward[local[p].vehicle]} :
               local[p].amount + local[q].amount <= row.tokens_earned

\* C7: every ledger row has tokens_spent <= tokens_earned.
C7_SpentAtMostEarned ==
    \A row \in LedgerRows : row.tokens_spent <= row.tokens_earned

\* C7 witness: a spend has emptied a ledger that had earned tokens.
C7_Witness ==
    \E row \in LedgerRows : row.tokens_spent > 0 /\ row.tokens_spent = row.tokens_earned

\* Sum of the token deltas of the events whose records are in S.
RECURSIVE C8_DeltaSum(_, _)
C8_DeltaSum(recs, S) ==
    IF S = {} THEN 0
    ELSE LET r == CHOOSE x \in S : TRUE
         IN  CopiesIn(r, recs) * (IF r.compliance_score >= 90 THEN 10
                                  ELSE IF r.compliance_score >= 70 THEN 5
                                  ELSE IF r.compliance_score >= 50 THEN 2 ELSE 0)
             + C8_DeltaSum(recs, S \ {r})

\* C8: once no request is in flight, the tokens_earned of a vehicle's ledger
\* is the sum of the deltas of the vehicle's processed events.  (With one
\* ledger row no process_sensor_data for the vehicle has failed, so every
\* record of the vehicle is a processed event; tokens_spent = 0 leaves out
\* the runs in which a spend has written the row.)
C8_NoAwardLost ==
    (\A p \in Procs : pc[p] \in {"idle", "done"})
    => \A v \in Vehicles :
           (Len(reward[v]) = 1 /\ reward[v][1].tokens_spent = 0)
           => reward[v][1].tokens_earned = C8_DeltaSum(records[v], BagToSet(records[v]))

\* C9: no step lowers the tokens_earned or the tokens_spent of a ledger row.
C9_CountersMonotone ==
    [][\A v \in Vehicles : \A i \in DOMAIN reward[v] :
          /\ reward'[v][i].tokens_earned >= reward[v][i].tokens_earned
          /\ reward'[v][i].tokens_spent >= reward[v][i].tokens_spent]_vars

\* C10: every vehicle has at most one RewardToken row and at most one
\* Leaderboard row.
C10_OneLedgerOneEntry ==
    \A v \in Vehicles : Len(reward[v]) <= 1 /\ Len(leaderboard[v]) <= 1

\* The rows of the Leaderboard table.
BoardRows == {leaderboard[e[1]][e[2]] : e \in Entries(leaderboard)}

\* C11: after update_all_rankings has completed, the ranks of the Leaderboard
\* entries are exactly 1..N, N the number of entries, each used once.
C11_RanksAreOneToN ==
    LET E == Entries(leaderboard)
    IN  /\ {leaderboard[e[1]][e[2]].rank : e \in E} = 1..Cardinality(E)
        /\ \A a, b \in E :
               leaderboard[a[1]][a[2]].rank = leaderboard[b[1]][b[2]].rank => a = b

\* C11 witness: two vehicles are ranked, one first and one second.
C11_Witness ==
    /\ Cardinality(Entries(leaderboard)) = 2
    /\ \E a, b \in Entries(leaderboard) :
           leaderboard[a[1]][a[2]].rank = 1 /\ leaderboard[b[1]][b[2]].rank = 2

\* C12: after update_all_rankings has completed, for any two entries A and B
\* more trips rank A above B whatever the compliance rates; with equal trips
\* fewer violations rank A above B; with equal trips and violations a higher
\* compliance rate ranks A above B.
C12_RankFollowsSortKey ==
    \A a, b \in Entries(leaderboard) :
        LET A == leaderboard[a[1]][a[2]]
            B == leaderboard[b[1]][b[2]]
        IN  /\ A.total_trips > B.total_trips => A.rank < B.rank
            /\ (A.total_trips = B.total_trips /\ A.total_violations < B.total_violations)
               => A.rank < B.rank
            /\ (/\ A.total_trips = B.total_trips
                /\ A.total_violations = B.total_violations
                /\ A.compliance_rate > B.compliance_rate)
               => A.rank < B.rank

\* C12 witness: an entry with more trips and a lower compliance rate is
\* ranked above an entry with fewer trips and a higher rate.
C12_Witness ==
    \E A, B \in BoardRows :
        /\ A.total_trips > B.total_trips
        /\ A.compliance_rate < B.compliance_rate
        /\ A.rank = 1 /\ B.rank = 2

\* C13: update_all_rankings run on a table a completed pass left behind, with
\* no write to vehicles, records or ledgers in between, leaves every entry's
\* rank as it was, entries equal on the sort key included.
C13_RankingReproducible ==
    [][(/\ vehicle' = vehicle /\ records' = records /\ reward' = reward
        /\ leaderboard \in update_all_rankings(leaderboard, records, reward))
       => leaderboard' = leaderboard]_vars

\* C14: in every state a vehicle with fewer than 3 records has no Leaderboard
\* entry and no entry carries the rank 0; when no pass is running, the
\* vehicles with an entry are exactly the vehicles with at least 3 records.
C14_NoEntryBelowThreeNoRankZero ==
    /\ \A v \in Vehicles : total_trips(records[v]) < 3 => leaderboard[v] = <<>>
    /\ \A row \in BoardRows : row.rank # 0
    /\ \A p \in Procs : resp[p].op = "get_vehicle_ranking" /\ resp[p].status = "success"
                             => resp[p].rank # 0
    /\ (\A p \in Procs : pc[p] = "idle")
       => {v \in Vehicles : leaderboard[v] # <<>>}
            = {v \in Vehicles : total_trips(records[v]) >= 3}

\* C15: whenever no request is in flight, every Leaderboard entry's cached
\* total_trips, total_violations, compliance_rate, average_compliance_score
\* and total_tokens_earned are the values recomputed from the vehicle's
\* current records and its ledger's tokens_earned.
C15_CacheMatchesRecomputation ==
    (\A p \in Procs : pc[p] \in {"idle", "done"})
    => \A v \in Vehicles : \A i \in DOMAIN leaderboard[v] :
           LET row == leaderboard[v][i]
           IN  /\ row.total_trips = total_trips(records[v])
               /\ row.total_violations = total_violations(records[v])
               /\ row.compliance_rate = compliance_rate(records[v])
               /\ row.average_compliance_score = average_compliance_score(records[v])
               /\ reward[v] # <<>> /\ row.total_tokens_earned = reward[v][1].tokens_earned

\* C16: once the passes of concurrent requests have all finished, the ranks
\* are 1..N without duplicates, they agree with the sort key, and every
\* entry's cached stats are the ones recomputed from the current records and
\* ledger.
C16_OverlappingPassesConsistent ==
    (\A p \in Procs : pc[p] = "idle")
    => /\ {row.rank : row \in BoardRows} = 1..Cardinality(Entries(leaderboard))
       /\ \A A, B \in BoardRows : SortsBefore(A, B) => A.rank < B.rank
       /\ \A v \in Vehicles : \A i \in DOMAIN leaderboard[v] :
              leaderboard[v][i] = update_stats(leaderboard[v][i], records[v], reward[v])

\* C17: process_sensor_data is all-or-nothing: when it has answered with an
\* error, the ComplianceRecord it created (the one with the score the handler
\* computed, for the vehicle it named) is not in the table.
C17_FailedEventLeavesNoRecord ==
    \A p \in Procs :
        (/\ pc[p] = "done"
         /\ resp[p].op = "process_sensor_data"
         /\ resp[p].status = "error")
        => \A r \in BagToSet(records[local[p].vehicle]) :
               r.compliance_score # local[p].compliance_score

\* C18: no response of process_sensor_data, spend_tokens or get_leaderboard
\* is the error response produced by a failed blockchain call.
C18_ChainFailureNotSurfaced ==
    \A p \in Procs :
        \A op \in {"process_sensor_data", "spend_tokens", "get_leaderboard"} :
            resp[p] # ProbeErrorResp(op)

\* The tier tables as stated: the delta for each band of scores.
C19_Table(variant, score) ==
    IF variant = "drivewise"
    THEN CASE score \in 90..100 -> 10
           [] score \in 70..89 -> 5
           [] score \in 50..69 -> 2
           [] OTHER -> 0
    ELSE CASE score \in 90..100 -> 5
           [] score \in 80..89 -> 3
           [] score \in 70..79 -> 1
           [] OTHER -> 0

\* C19: the token delta of an event is the value the variant's tier table
\* gives for its score (drivewise 10/5/2/0 at 90/70/50, expensetrackerapp
\* 5/3/1/0 at 90/80/70); it is never negative and no lower score earns more.
C19_DeltaFollowsTierTable ==
    \A p \in Procs :
        (pc[p] = "done" /\ resp[p].op = "process_sensor_data" /\ resp[p].status = "success")
        => /\ resp[p].tokens_earned = C19_Table(resp[p].variant, resp[p].compliance_score)
           /\ resp[p].tokens_earned >= 0
           /\ \A lower \in 0..resp[p].compliance_score :
                  (IF resp[p].variant = "drivewise"
                   THEN TokensFor(lower) ELSE TokensForExpense(lower))
                  <= resp[p].tokens_earned

\* C19 witness: a drivewise event with score 70, the lower edge of the middle
\* tier, has been awarded 5 tokens.
C19_Witness ==
    \E p \in Procs :
        /\ pc[p] = "done"
        /\ resp[p].op = "process_sensor_data"
        /\ resp[p].variant = "drivewise"
        /\ resp[p].compliance_score = 70
        /\ resp[p].tokens_earned = 5

\* A record is speeding when both speeds are set and non-zero and the actual
\* speed is above the limit; C20_Over is by how much.
C20_Speeding(r) ==
    Truthy(r.speed_limit) /\ Truthy(r.actual_speed) /\ r.actual_speed[1] > r.speed_limit[1]

C20_Over(r) == r.actual_speed[1] - r.speed_limit[1]

\* The points a record loses for the horn and the seatbelt.
C20_OtherPenalties(r) ==
    (IF r.no_horn_zone /\ r.horn_applied THEN 15 ELSE 0)
    + (IF r.seatbelt_required /\ ~r.seatbelt_worn THEN 25 ELSE 0)

\* C20 as stated: every record speeding by more than 20 scores at most 70,
\* every record speeding by at most 20 scores exactly 80, and a record that
\* is not speeding loses nothing on the speed axis.
C20_AsStated ==
    \A r \in StoredRecords :
        /\ (C20_Speeding(r) /\ C20_Over(r) > 20) => r.compliance_score <= 70
        /\ (C20_Speeding(r) /\ C20_Over(r) <= 20) => r.compliance_score = 80
        /\ ~C20_Speeding(r) => r.compliance_score = 100 - C20_OtherPenalties(r)

\* C20 amended: a record speeding by more than 20 scores 70 less its horn and
\* seatbelt penalties (at most 70), a record speeding by at most 20 scores 80
\* less its horn and seatbelt penalties (exactly 80 only when it has neither),
\* and a record that is not speeding loses nothing on the speed axis.
C20_SpeedAxis ==
    \A r \in StoredRecords :
        /\ (C20_Speeding(r) /\ C20_Over(r) > 20)
           => r.compliance_score = 70 - C20_OtherPenalties(r) /\ r.compliance_score <= 70
        /\ (C20_Speeding(r) /\ C20_Over(r) <= 20)
           => /\ r.compliance_score = 80 - C20_OtherPenalties(r)
              /\ C20_OtherPenalties(r) = 0 => r.compliance_score = 80
        /\ ~C20_Speeding(r) => r.compliance_score = 100 - C20_OtherPenalties(r)

\* C20 witness: a record exactly 20 over the limit with no other violation
\* is stored with score 80.
C20_Witness ==
    \E r \in StoredRecords :
        /\ r.speed_limit = <<40>> /\ r.actual_speed = <<60>>
        /\ C20_OtherPenalties(r) = 0
        /\ r.compliance_score = 80

(***************************************************************************)
(* C21: of two records that differ only in seatbelt_worn, both with        *)
(* seatbelt_required true, the one with the seatbelt not worn scores       *)
(* exactly 25 lower than the other, whatever the speed and horn fields     *)
(* are: the floor at 0 never absorbs part of the seatbelt penalty.         *)
(***************************************************************************)
\* The same record saved with the seatbelt worn.
C21_Twin(r) == ComplianceRecord_save([r EXCEPT !.seatbelt_worn = TRUE])

C21_SeatbeltCostsExactly25 ==
    \A r \in StoredRecords :
        r.seatbelt_required /\ ~r.seatbelt_worn =>
            /\ r.compliance_score = C21_Twin(r).compliance_score - 25
            /\ r.compliance_score >= 0

\* The heaviest case is stored: excessive speed, horn in a no-horn zone and
\* no seatbelt together leave 30, so the floor is not reached.
C21_Witness ==
    \E r \in StoredRecords :
        /\ r.seatbelt_required /\ ~r.seatbelt_worn
        /\ r.no_horn_zone /\ r.horn_applied
        /\ Truthy(r.speed_limit) /\ Truthy(r.actual_speed)
        /\ r.actual_speed[1] > r.speed_limit[1] + 20
        /\ r.compliance_score = 30

(***************************************************************************)
(* C22: for every vehicle, compliance_rate is exactly 100.0 when it has no *)
(* records and otherwise ((total_trips - total_violations) / total_trips)  *)
(* * 100 rounded to 2 decimals; it lies in [0,100] and does not increase   *)
(* when total_violations increases with total_trips fixed.                 *)
(***************************************************************************)
\* rate (in hundredths) is a nearest two-decimal value of 100 * (t - viol) / t.
C22_Rounded(rate, t, viol) ==
    LET exact == 10000 * (t - viol)     \* t times the exact value in hundredths
        err == IF rate * t >= exact THEN rate * t - exact ELSE exact - rate * t
    IN  2 * err <= t

C22_ComplianceRateAsDefined ==
    /\ \A v \in Vehicles :
         LET t == total_trips(records[v])
             viol == total_violations(records[v])
             rate == compliance_rate(records[v])
         IN  /\ t = 0 => rate = 10000
             /\ t > 0 => C22_Rounded(rate, t, viol)
             /\ rate \in 0..10000
    /\ \A v, w \in Vehicles :
         /\ total_trips(records[v]) = total_trips(records[w])
         /\ total_violations(records[v]) >= total_violations(records[w])
         => compliance_rate(records[v]) <= compliance_rate(records[w])

\* Two vehicles with three trips each, one and two of them violations: the
\* rates are 66.67 (rounded up) and 33.33 (rounded down).
C22_Witness ==
    \E v, w \in Vehicles :
        /\ total_trips(records[v]) = 3 /\ total_violations(records[v]) = 1
        /\ total_trips(records[w]) = 3 /\ total_violations(records[w]) = 2
        /\ compliance_rate(records[v]) = 6667
        /\ compliance_rate(records[w]) = 3333

(***************************************************************************)
(* C23: total_trips is the number of all records of the vehicle and        *)
(* total_violations the number of its records whose violation_type is      *)
(* speed_violation, horn_violation or seatbelt_violation; stop_violation   *)
(* and no_violation records count as trips but never as violations, so     *)
(* 0 <= total_violations <= total_trips.                                   *)
(***************************************************************************)
\* Copies of the rows in S the bag holds, added up row by row.
RECURSIVE C23_Copies(_, _)
C23_Copies(recs, S) ==
    IF S = {} THEN 0
    ELSE LET r == CHOOSE x \in S : TRUE
         IN  CopiesIn(r, recs) + C23_Copies(recs, S \ {r})

\* Rows of the bag whose violation_type is in T.
C23_Having(recs, T) ==
    C23_Copies(recs, {r \in BagToSet(recs) : r.violation_type \in T})

C23_TripsAndViolationsCount ==
    \A v \in Vehicles :
        LET recs == records[v]
        IN  /\ total_trips(recs) =
                 C23_Having(recs, {"speed_violation", "horn_violation",
                                   "seatbelt_violation", "stop_violation",
                                   "no_violation"})
            /\ total_violations(recs) =
                 C23_Having(recs, {"speed_violation", "horn_violation",
                                   "seatbelt_violation"})
            /\ total_trips(recs) - total_violations(recs) =
                 C23_Having(recs, {"stop_violation", "no_violation"})
            /\ 0 <= total_violations(recs)
            /\ total_violations(recs) <= total_trips(recs)

\* A vehicle holds a stop_violation and a no_violation record next to two
\* counted ones: four trips, two violations.
C23_Witness ==
    \E v \in Vehicles :
        /\ \E r \in BagToSet(records[v]) : r.violation_type = "stop_violation"
        /\ \E r \in BagToSet(records[v]) : r.violation_type = "no_violation"
        /\ \E r \in BagToSet(records[v]) : r.violation_type = "horn_violation"
        /\ \E r \in BagToSet(records[v]) : r.violation_type = "seatbelt_violation"
        /\ total_trips(records[v]) = 4
        /\ total_violations(records[v]) = 2

(***************************************************************************)
(* C24: after a successful process_sensor_data executed without concurrent *)
(* requests, the returned current_rank is null if and only if the vehicle  *)
(* then has fewer than 3 records; otherwise it is the vehicle's freshly    *)
(* assigned rank in 1..N; qualification_status is 'Qualified' exactly when *)
(* total_trips >= 3 and otherwise names the 3 - total_trips missing        *)
(* entries.                                                                *)
(***************************************************************************)
C24_RankAndStatusInResponse ==
    \A p \in Procs :
        (resp[p].op = "process_sensor_data" /\ resp[p].status = "success") =>
            LET v == local[p].vehicle
                trips == total_trips(records[v])
                N == Cardinality(Entries(leaderboard))
            IN  /\ resp[p].total_trips = trips
                /\ resp[p].current_rank = None <=> trips < 3
                /\ trips >= 3 =>
                     /\ Len(leaderboard[v]) = 1
                     /\ resp[p].current_rank = <<leaderboard[v][1].rank>>
                     /\ leaderboard[v][1].rank \in 1..N
                     /\ leaderboard[v][1].total_trips = trips
                /\ resp[p].qualification_status = <<"Qualified">> <=> trips >= 3
                /\ trips < 3 => resp[p].qualification_status = <<"Needs", 3 - trips>>

\* A vehicle's third record is answered with rank 2 of two entries (the
\* requests before it, one and two entries short, were answered with null).
C24_Witness ==
    \E p \in Procs :
        /\ resp[p].op = "process_sensor_data" /\ resp[p].status = "success"
        /\ resp[p].total_trips = 3
        /\ resp[p].current_rank = <<2>>
        /\ Cardinality(Entries(leaderboard)) = 2

(***************************************************************************)
(* C25: get_vehicle_ranking for an existing vehicle with fewer than 3      *)
(* records returns a not-qualified error carrying total_trips and          *)
(* needed_entries = 3 - total_trips, and changes no stored state.  Stated  *)
(* for the responses of vehicles that still have fewer than 3 records when *)
(* the response is ready, that is, had fewer than 3 during the whole       *)
(* request (records are only ever added).                                  *)
(***************************************************************************)
C25_NotQualifiedCarriesCounts ==
    \A p \in Procs :
        (/\ pc[p] = "done"
         /\ resp[p].op = "get_vehicle_ranking"
         /\ resp[p] # ErrorResp("get_vehicle_ranking", 500)   \* the vehicle existed
         /\ total_trips(records[local[p].vehicle]) < 3) =>
            /\ resp[p].status = "error"
            /\ resp[p].code = 400
            /\ resp[p].needed_entries = 3 - resp[p].total_trips

(***************************************************************************)
(* C26: every API operation ends by returning a success payload or a       *)
(* structured error payload and never lets an exception leave the view.    *)
(* spend_tokens, get_vehicle_ranking, get_vehicle_compliance and           *)
(* get_dashboard_stats on an unknown vehicle id (spend_tokens also on a    *)
(* vehicle without a ledger) return an error payload and create or modify  *)
(* no vehicle, ledger, record or leaderboard row.                          *)
(***************************************************************************)
\* Handler p takes up a request of one of the four operations in this step.
C26_StartsNamed(p) ==
    /\ pc[p] = "idle"
    /\ \/ pc'[p] \in {"spend_save", "gvr_trips", "gvr_entry", "gvc_answer"}
       \/ /\ pc'[p] = "done"
          /\ resp'[p].op \in QueryOps \cup {"spend_tokens"}

\* The request found its vehicle (and, for spend_tokens, its one ledger row).
C26_Found(p) ==
    /\ local'[p].vehicle \in Vehicles
    /\ vehicle[local'[p].vehicle] # "absent"
    /\ (pc'[p] = "spend_save" \/ resp'[p].op = "spend_tokens") =>
           Len(reward[local'[p].vehicle]) = 1

C26_EveryOperationAnswers ==
    [][\A p \in Procs :
          /\ (pc[p] # "idle" /\ pc'[p] = "idle") =>
                 /\ pc[p] = "done"
                 /\ resp[p].status \in {"success", "error"}
          /\ (pc[p] # "done" /\ pc'[p] = "done") =>
                 resp'[p].status \in {"success", "error"}
          /\ (C26_StartsNamed(p) /\ ~C26_Found(p)) =>
                 /\ pc'[p] = "done"
                 /\ resp'[p].status = "error"
                 /\ db' = db]_vars

\* get_dashboard_stats has been answered with an error for a vehicle nobody
\* has posted for, while the tables hold another vehicle's rows.
C26_Witness ==
    \E p \in Procs :
        /\ pc[p] = "done"
        /\ resp[p] = ErrorResp("get_dashboard_stats", 500)
        /\ vehicle[local[p].vehicle] = "absent"
        /\ \E v \in Vehicles : records[v] # EmptyBag /\ reward[v] # <<>>

(***************************************************************************)
(* C27: a spend request whose amount equals the available balance exactly  *)
(* is accepted: it returns success, tokens_spent increases by that amount, *)
(* the available balance becomes 0, and tokens_earned, all compliance      *)
(* records and all leaderboard entries are left unchanged.  Stated for the *)
(* step that writes the ledger, with the balance the request loaded.       *)
(***************************************************************************)
C27_ExactSpendAccepted ==
    [][\A p \in Procs :
          (/\ pc[p] = "spend_save"
           /\ pc'[p] = "done"
           /\ local[p].amount = tokens_available(local[p].reward_token)) =>
              LET v == local[p].vehicle
              IN  /\ resp'[p].status = "success"
                  /\ reward'[v][1].tokens_spent = reward[v][1].tokens_spent + local[p].amount
                  /\ tokens_available(reward'[v][1]) = 0
                  /\ reward'[v][1].tokens_earned = reward[v][1].tokens_earned
                  /\ records' = records
                  /\ leaderboard' = leaderboard]_vars

C30_Recomputing(q) == pc[q] \in {"psd_get", "psd_create", "psd_save", "psd_rank"}

C30_QualificationPermanent ==
    [][/\ \A v \in Vehicles :
            /\ total_trips(records'[v]) >= total_trips(records[v])
            /\ Len(leaderboard'[v]) >= Len(leaderboard[v])
       /\ (\A p \in Procs : pc'[p] = "idle") =>
              \A v \in Vehicles :
                  total_trips(records'[v]) >= 3 => leaderboard'[v] # <<>>
       /\ \A p \in Procs :
              (/\ pc[p] = "gvr_entry"
               /\ resp'[p] = ErrorResp("get_vehicle_ranking", 404)) =>
                  \E q \in Procs \ {p} : C30_Recomputing(q)]_vars

====
